---- MODULE Spec2Model ----
(***************************************************************************)
(* Model of the version classification core of vscode-versionlens          *)
(* (src/unnamed/part_000): buildMapFromVersionList, buildTagsFromVersionMap *)
(* and applyTagFilterRules, together with the part of the semver library   *)
(* (node-semver 5.x, strict mode) those functions call.                    *)
(*                                                                         *)
(* A JavaScript string is a sequence of one-character strings, so that the  *)
(* textual operations of the code (replace, includes, ===, toLowerCase,     *)
(* regular expressions) and the parsing done by semver are computed and    *)
(* not assumed.  The strings of the model are built from letters, digits   *)
(* and the characters  . - ^ ~ < > = *  : they hold no blank, no "|" and no *)
(* "+", so a range is a single comparator and a version has no build part. *)
(*                                                                         *)
(* A call that can throw is modelled by its outcome [threw, value]: threw  *)
(* is TRUE where the JavaScript call ends in a TypeError, and value is     *)
(* what it returns otherwise.                                              *)
(***************************************************************************)
EXTENDS Integers, Sequences, FiniteSets, TLC

(***************************************************************************)
(* JavaScript values that are not strings.                                 *)
(***************************************************************************)
Null == <<"null">>
Undefined == <<"undefined">>

\* !s for a string, null or undefined
Falsy(s) == s = Null \/ s = Undefined \/ s = <<>>

Returned(value) == [threw |-> FALSE, value |-> value]
Thrown(value) == [threw |-> TRUE, value |-> value]

(***************************************************************************)
(* Characters and strings.                                                 *)
(***************************************************************************)
Digits == <<"0", "1", "2", "3", "4", "5", "6", "7", "8", "9">>

UpperCase ==
  <<"A", "B", "C", "D", "E", "F", "G", "H", "I", "J", "K", "L", "M",
    "N", "O", "P", "Q", "R", "S", "T", "U", "V", "W", "X", "Y", "Z">>

LowerCase ==
  <<"a", "b", "c", "d", "e", "f", "g", "h", "i", "j", "k", "l", "m",
    "n", "o", "p", "q", "r", "s", "t", "u", "v", "w", "x", "y", "z">>

\* the characters of the model in the order of their UTF-16 code units
CodeUnitOrder ==
  <<"*", "-", ".">> \o Digits \o <<"<", "=", ">">> \o UpperCase
    \o <<"^">> \o LowerCase \o <<"~">>

Range1(seq) == {seq[i] : i \in 1..Len(seq)}
DigitSet == Range1(Digits)
UpperSet == Range1(UpperCase)
AlphaSet == Range1(UpperCase) \cup Range1(LowerCase)

DigitValue == [c \in DigitSet |-> (CHOOSE i \in 1..Len(Digits) : Digits[i] = c) - 1]
LowerOf == [c \in UpperSet |-> LowerCase[CHOOSE i \in 1..Len(UpperCase) : UpperCase[i] = c]]
CharCode ==
  [c \in Range1(CodeUnitOrder) |-> CHOOSE i \in 1..Len(CodeUnitOrder) : CodeUnitOrder[i] = c]

toLowerCase(s) == [i \in 1..Len(s) |-> IF s[i] \in UpperSet THEN LowerOf[s[i]] ELSE s[i]]

\* the first index from i on at which seq holds c, 0 when there is none
RECURSIVE IndexFrom(_, _, _)
IndexFrom(seq, c, i) ==
  IF i > Len(seq) THEN 0
  ELSE IF seq[i] = c THEN i
  ELSE IndexFrom(seq, c, i + 1)

\* a < b on JavaScript strings: lexicographic on code units
RECURSIVE StrLessFrom(_, _, _)
StrLessFrom(a, b, i) ==
  IF i > Len(b) THEN FALSE
  ELSE IF i > Len(a) THEN TRUE
  ELSE IF a[i] # b[i] THEN CharCode[a[i]] < CharCode[b[i]]
  ELSE StrLessFrom(a, b, i + 1)

StrLess(a, b) == StrLessFrom(a, b, 1)

\* +s for a string of digits
RECURSIVE NumValFrom(_, _, _)
NumValFrom(s, i, n) ==
  IF i > Len(s) THEN n ELSE NumValFrom(s, i + 1, n * 10 + DigitValue[s[i]])

NumVal(s) == NumValFrom(s, 1, 0)

\* String(n) for a natural number
RECURSIVE NatToStr(_)
NatToStr(n) ==
  IF n < 10 THEN <<Digits[n + 1]>>
  ELSE NatToStr(n \div 10) \o <<Digits[(n % 10) + 1]>>

\* s.split(sep) for a one-character separator
RECURSIVE SplitFrom(_, _, _)
SplitFrom(s, sep, i) ==
  IF i = 0 THEN <<s>>
  ELSE <<SubSeq(s, 1, i - 1)>>
         \o SplitFrom(SubSeq(s, i + 1, Len(s)), sep,
                      IndexFrom(SubSeq(s, i + 1, Len(s)), sep, 1))

Split(s, sep) == SplitFrom(s, sep, IndexFrom(s, sep, 1))

\* parts.join(sep)
RECURSIVE Join(_, _)
Join(parts, sep) ==
  IF parts = <<>> THEN <<>>
  ELSE IF Len(parts) = 1 THEN parts[1]
  ELSE parts[1] \o <<sep>> \o Join(Tail(parts), sep)

StartsAt(s, pat, i) ==
  /\ i + Len(pat) - 1 <= Len(s)
  /\ \A k \in 1..Len(pat) : s[i + k - 1] = pat[k]

\* s.indexOf(pat) + 1 searched from i on, 0 when pat does not occur
RECURSIVE IndexOfStrFrom(_, _, _)
IndexOfStrFrom(s, pat, i) ==
  IF i + Len(pat) - 1 > Len(s) THEN 0
  ELSE IF StartsAt(s, pat, i) THEN i
  ELSE IndexOfStrFrom(s, pat, i + 1)

\* s.includes(pat)
Includes(s, pat) == IndexOfStrFrom(s, pat, 1) # 0

\* s with the len characters from index i on removed (s itself when i = 0)
RemoveAt(s, i, len) ==
  IF i = 0 THEN s ELSE SubSeq(s, 1, i - 1) \o SubSeq(s, i + len, Len(s))

\* s.replace(pat, '') for a string pattern: the first occurrence only
RemoveFirst(s, pat) == RemoveAt(s, IndexOfStrFrom(s, pat, 1), Len(pat))

\* the first index from i on at which s holds "^" or "~", 0 when there is none
RECURSIVE IndexOfCaretOrTilde(_, _)
IndexOfCaretOrTilde(s, i) ==
  IF i > Len(s) THEN 0
  ELSE IF s[i] \in {"^", "~"} THEN i
  ELSE IndexOfCaretOrTilde(s, i + 1)

\* s.replace(/[\^~]/, ''): the first "^" or "~" only (the regexp is not global)
RemoveFirstCaretOrTilde(s) == RemoveAt(s, IndexOfCaretOrTilde(s, 1), 1)

\* the length of the longest prefix of s made of the characters of set
RECURSIVE PrefixLenFrom(_, _, _)
PrefixLenFrom(s, set, i) ==
  IF i <= Len(s) /\ s[i] \in set THEN PrefixLenFrom(s, set, i + 1) ELSE i - 1

PrefixLen(s, set) == PrefixLenFrom(s, set, 1)

\* the elements of elems at the indices where keep holds TRUE
RECURSIVE SelectFrom(_, _, _)
SelectFrom(elems, keep, i) ==
  IF i > Len(elems) THEN <<>>
  ELSE (IF keep[i] THEN <<elems[i]>> ELSE <<>>) \o SelectFrom(elems, keep, i + 1)

(***************************************************************************)
(* semver: versions.  A SemVer object is [ok, major, minor, patch,         *)
(* prerelease]: ok is FALSE where new SemVer(s) throws (s is no version),  *)
(* and a prerelease identifier is [numeric, num, text], num being its      *)
(* value when it is numeric.                                               *)
(***************************************************************************)

\* NUMERICIDENTIFIER: 0|[1-9]\d*
IsNumericIdentifier(s) ==
  /\ Len(s) >= 1
  /\ \A i \in 1..Len(s) : s[i] \in DigitSet
  /\ (Len(s) = 1 \/ s[1] # "0")

\* NUMERICIDENTIFIER | NONNUMERICIDENTIFIER (\d*[a-zA-Z-][a-zA-Z0-9-]*)
IsPrereleaseIdentifier(s) ==
  /\ Len(s) >= 1
  /\ \A i \in 1..Len(s) : s[i] \in DigitSet \/ s[i] \in AlphaSet \/ s[i] = "-"
  /\ ((\E i \in 1..Len(s) : s[i] \notin DigitSet) \/ Len(s) = 1 \/ s[1] # "0")

\* SemVer's  prerelease.map(id => /^[0-9]+$/.test(id) ? +id : id)
PrereleaseIdentifier(id) ==
  IF \A k \in 1..Len(id) : id[k] \in DigitSet
  THEN [numeric |-> TRUE, num |-> NumVal(id), text |-> NatToStr(NumVal(id))]
  ELSE [numeric |-> FALSE, num |-> 0, text |-> id]

\* the identifiers of a prerelease text (without its leading "-"), and
\* whether the text matches PRERELEASE
PrereleaseFrom(ids) ==
  [ok |-> \A i \in 1..Len(ids) : IsPrereleaseIdentifier(ids[i]),
   ids |-> ids]

PrereleaseMatch(text) == PrereleaseFrom(Split(text, "."))

PrereleaseOf(text) ==
  LET ids == Split(text, ".") IN [i \in 1..Len(ids) |-> PrereleaseIdentifier(ids[i])]

\* a text cut at its first "-": what is before it, and what is after it
CutFrom(body, dash) ==
  [main |-> IF dash = 0 THEN body ELSE SubSeq(body, 1, dash - 1),
   hasPre |-> dash # 0,
   pre |-> IF dash = 0 THEN <<>> ELSE SubSeq(body, dash + 1, Len(body))]

CutAtDash(body) == CutFrom(body, IndexFrom(body, "-", 1))

\* the match of re[FULL] = ^v?MAJOR.MINOR.PATCH(-PRERELEASE)?$
FullMatchFrom(nums, cut) ==
  [ok |-> /\ Len(nums) = 3
          /\ \A i \in 1..3 : IsNumericIdentifier(nums[i])
          /\ (cut.hasPre => PrereleaseMatch(cut.pre).ok),
   nums |-> nums, hasPre |-> cut.hasPre, pre |-> cut.pre]

FullMatchCut(cut) == FullMatchFrom(Split(cut.main, "."), cut)

FullMatch(s) == FullMatchCut(CutAtDash(IF s # <<>> /\ s[1] = "v" THEN Tail(s) ELSE s))

NoSemVer == [ok |-> FALSE, major |-> 0, minor |-> 0, patch |-> 0, prerelease |-> <<>>]

SemVerFrom(m) ==
  IF m.ok
  THEN [ok |-> TRUE,
        major |-> NumVal(m.nums[1]), minor |-> NumVal(m.nums[2]), patch |-> NumVal(m.nums[3]),
        prerelease |-> IF m.hasPre THEN PrereleaseOf(m.pre) ELSE <<>>]
  ELSE NoSemVer

\* new SemVer(s); null and undefined are no versions either
SemVer(s) == SemVerFrom(FullMatch(s))

MkSemVer(M, m, p) == [ok |-> TRUE, major |-> M, minor |-> m, patch |-> p, prerelease |-> <<>>]

\* new SemVer(s) does not throw
IsValidVersion(s) == SemVer(s).ok

\* semver.prerelease(s): the parsed components; semver returns null where there
\* is none (never an empty array), and the empty sequence stands for that null
prerelease(s) == SemVer(s).prerelease

\* components.join('.') of JavaScript: numbers print in decimal
JoinPrerelease(components) ==
  Join([i \in 1..Len(components) |-> components[i].text], ".")

\* compareIdentifiers(a, b)
compareIdentifiers(a, b) ==
  IF a.numeric /\ b.numeric
  THEN (IF a.num < b.num THEN -1 ELSE IF a.num > b.num THEN 1 ELSE 0)
  ELSE IF a.numeric THEN -1
  ELSE IF b.numeric THEN 1
  ELSE IF StrLess(a.text, b.text) THEN -1
  ELSE IF StrLess(b.text, a.text) THEN 1
  ELSE 0

CompareNat(a, b) == IF a < b THEN -1 ELSE IF a > b THEN 1 ELSE 0

\* SemVer.prototype.compareMain
compareMain(a, b) ==
  IF a.major # b.major THEN CompareNat(a.major, b.major)
  ELSE IF a.minor # b.minor THEN CompareNat(a.minor, b.minor)
  ELSE CompareNat(a.patch, b.patch)

\* SemVer.prototype.comparePre: a release is above its prereleases; then the
\* identifiers are compared from the left and the shorter list is the lower
RECURSIVE comparePreFrom(_, _, _)
comparePreFrom(pa, pb, i) ==
  IF i > Len(pa) /\ i > Len(pb) THEN 0
  ELSE IF i > Len(pb) THEN 1
  ELSE IF i > Len(pa) THEN -1
  ELSE IF pa[i] = pb[i] THEN comparePreFrom(pa, pb, i + 1)
  ELSE compareIdentifiers(pa[i], pb[i])

comparePre(a, b) ==
  IF a.prerelease # <<>> /\ b.prerelease = <<>> THEN -1
  ELSE IF a.prerelease = <<>> /\ b.prerelease # <<>> THEN 1
  ELSE IF a.prerelease = <<>> /\ b.prerelease = <<>> THEN 0
  ELSE comparePreFrom(a.prerelease, b.prerelease, 1)

\* SemVer.prototype.compare
compare(a, b) ==
  IF a.major # b.major \/ a.minor # b.minor \/ a.patch # b.patch
  THEN compareMain(a, b) ELSE comparePre(a, b)

\* cmp(a, op, b) for the operators of a comparator, given c = compare(a, b)
CmpHolds(op, c) ==
  CASE op = ">"  -> c > 0
    [] op = ">=" -> c >= 0
    [] op = "<"  -> c < 0
    [] op = "<=" -> c <= 0
    [] OTHER     -> c = 0

cmp(a, op, b) == CmpHolds(op, compare(a, b))

\* semver.compare(a, b) on version strings: the outcome of
\* new SemVer(a).compare(new SemVer(b)); semver.lt(a, b) is compare(a, b) < 0
\* and semver.gt(a, b) is compare(a, b) > 0
compareSemVers(a, b) == IF a.ok /\ b.ok THEN Returned(compare(a, b)) ELSE Thrown(0)
semverCompare(a, b) == compareSemVers(SemVer(a), SemVer(b))

(***************************************************************************)
(* semver: ranges.  A range without blanks and without "||" is one         *)
(* comparator token; new Range(s) turns it into one set of comparators     *)
(* [operator, any, semver], and ok is FALSE where the constructor throws.  *)
(* The comparator of the empty string matches any version (semver's ANY)   *)
(* and, in semver 5.x, its operator is the undefined first group of the    *)
(* match.                                                                  *)
(***************************************************************************)
Comparator(op, sv) == [operator |-> IF op = "=" THEN "" ELSE op, any |-> FALSE, semver |-> sv]
AnyComparator == [operator |-> "undefined", any |-> TRUE, semver |-> MkSemVer(0, 0, 0)]

InvalidRange == [ok |-> FALSE, set |-> <<>>]
RangeOf(comparators) == [ok |-> TRUE, set |-> comparators]

\* M.m.p as a comparator version, with the prerelease of the match x if any
FromVersion(x, M, m, p) ==
  [ok |-> TRUE, major |-> M, minor |-> m, patch |-> p,
   prerelease |-> IF x.pr # Undefined THEN PrereleaseOf(x.pr) ELSE <<>>]

\* >=from <M.m.p
Between(from, M, m, p) == <<Comparator(">=", from), Comparator("<", MkSemVer(M, m, p))>>

\* XRANGEIDENTIFIER: NUMERICIDENTIFIER|x|X|\*
IsXRangeIdentifier(s) == IsNumericIdentifier(s) \/ s \in {<<"x">>, <<"X">>, <<"*">>}

\* isX(id): !id || id.toLowerCase() === 'x' || id === '*'
isX(id) == id = Undefined \/ id = <<>> \/ id \in {<<"x">>, <<"X">>, <<"*">>}

\* +id, where it is read (an X is never read)
NumOf(id) == IF isX(id) THEN 0 ELSE NumVal(id)

\* the match of ^XRANGEPLAIN$:
\* [v=\s]*(XR)(?:\.(XR)(?:\.(XR)(?:-(PRERELEASE))?)?)?
XRangeFrom(ids, cut) ==
  [ok |-> /\ Len(ids) \in 1..3
          /\ \A i \in 1..Len(ids) : IsXRangeIdentifier(ids[i])
          /\ (cut.hasPre => Len(ids) = 3 /\ PrereleaseMatch(cut.pre).ok),
   M  |-> ids[1],
   m  |-> IF Len(ids) >= 2 THEN ids[2] ELSE Undefined,
   p  |-> IF Len(ids) >= 3 THEN ids[3] ELSE Undefined,
   pr |-> IF cut.hasPre THEN cut.pre ELSE Undefined]

XRangeCut(cut) == XRangeFrom(Split(cut.main, "."), cut)

XRangePlainMatch(s) == XRangeCut(CutAtDash(SubSeq(s, PrefixLen(s, {"v", "="}) + 1, Len(s))))

\* replaceCaret's replacement for a match x of XRANGEPLAIN, M, m, p being
\* the numbers of x
CaretComparators(x, M, m, p) ==
  IF isX(x.M) THEN <<AnyComparator>>
  ELSE IF isX(x.m) THEN Between(MkSemVer(M, 0, 0), M + 1, 0, 0)
  ELSE IF isX(x.p)
    THEN IF x.M = <<"0">>
         THEN Between(MkSemVer(M, m, 0), M, m + 1, 0)
         ELSE Between(MkSemVer(M, m, 0), M + 1, 0, 0)
  ELSE IF x.M = <<"0">>
    THEN IF x.m = <<"0">>
         THEN Between(FromVersion(x, M, m, p), M, m, p + 1)
         ELSE Between(FromVersion(x, M, m, p), M, m + 1, 0)
  ELSE Between(FromVersion(x, M, m, p), M + 1, 0, 0)

replaceCaret(x) == CaretComparators(x, NumOf(x.M), NumOf(x.m), NumOf(x.p))

\* replaceTilde's replacement
TildeComparators(x, M, m, p) ==
  IF isX(x.M) THEN <<AnyComparator>>
  ELSE IF isX(x.m) THEN Between(MkSemVer(M, 0, 0), M + 1, 0, 0)
  ELSE IF isX(x.p) THEN Between(MkSemVer(M, m, 0), M, m + 1, 0)
  ELSE Between(FromVersion(x, M, m, p), M, m + 1, 0)

replaceTilde(x) == TildeComparators(x, NumOf(x.M), NumOf(x.m), NumOf(x.p))

\* GTLT = ((?:<|>)?=?): the operator a comparator text starts with
GtltFrom(s, a, b) ==
  CASE a = 1 /\ b = 1 -> [op |-> IF s[1] = "<" THEN "<=" ELSE ">=", len |-> 2]
    [] a = 1 /\ b = 0 -> [op |-> IF s[1] = "<" THEN "<" ELSE ">", len |-> 1]
    [] a = 0 /\ b = 1 -> [op |-> "=", len |-> 1]
    [] OTHER          -> [op |-> "", len |-> 0]

GtltOf(s) ==
  GtltFrom(s,
    IF s # <<>> /\ s[1] \in {"<", ">"} THEN 1 ELSE 0,
    IF \/ (Len(s) >= 1 /\ s[1] = "=")
       \/ (Len(s) >= 2 /\ s[1] \in {"<", ">"} /\ s[2] = "=") THEN 1 ELSE 0)

\* replaceXRange's replacement for an operator gtlt and a match x of
\* XRANGEPLAIN in which some identifier is an X; xm: the minor is an X (or the
\* major is); an X counts as 0
XRangeComparators(gtlt, xM, xm, M, m, p) ==
  IF xM
  THEN IF gtlt \in {">", "<"} THEN <<Comparator("<", MkSemVer(0, 0, 0))>> ELSE <<AnyComparator>>
  ELSE IF gtlt # ""
    THEN CASE gtlt = ">"  -> IF xm THEN <<Comparator(">=", MkSemVer(M + 1, 0, 0))>>
                             ELSE <<Comparator(">=", MkSemVer(M, m + 1, 0))>>
           [] gtlt = "<=" -> IF xm THEN <<Comparator("<", MkSemVer(M + 1, m, p))>>
                             ELSE <<Comparator("<", MkSemVer(M, m + 1, p))>>
           [] OTHER       -> <<Comparator(gtlt, MkSemVer(M, m, p))>>
  ELSE IF xm THEN Between(MkSemVer(M, 0, 0), M + 1, 0, 0)
  ELSE Between(MkSemVer(M, m, 0), M, m + 1, 0)

replaceXRange(gtlt, x) ==
  XRangeComparators(IF gtlt = "=" THEN "" ELSE gtlt,
                    isX(x.M), isX(x.M) \/ isX(x.m),
                    NumOf(x.M),
                    IF isX(x.M) \/ isX(x.m) THEN 0 ELSE NumOf(x.m),
                    0)

\* replaceStars: s.replace(/(<|>)?=?\s*\*/g, '')
RECURSIVE replaceStars(_)
replaceStars(s) ==
  IF s = <<>> THEN <<>>
  ELSE IF s[1] \in {"<", ">"} /\ Len(s) >= 3 /\ s[2] = "=" /\ s[3] = "*"
    THEN replaceStars(SubSeq(s, 4, Len(s)))
  ELSE IF s[1] \in {"<", ">", "="} /\ Len(s) >= 2 /\ s[2] = "*"
    THEN replaceStars(SubSeq(s, 3, Len(s)))
  ELSE IF s[1] = "*" THEN replaceStars(Tail(s))
  ELSE <<s[1]>> \o replaceStars(Tail(s))

\* new Comparator(s): re[COMPARATOR] = ^GTLT\s*(FULLPLAIN)$|^$
ComparatorOf(op, sv) == IF sv.ok THEN RangeOf(<<Comparator(op, sv)>>) ELSE InvalidRange

ComparatorFrom(s, g) == ComparatorOf(g.op, SemVer(SubSeq(s, g.len + 1, Len(s))))

ParseComparator(s) == IF s = <<>> THEN RangeOf(<<AnyComparator>>) ELSE ComparatorFrom(s, GtltOf(s))

\* a comparator text that starts with "^", x being the match of what follows
CaretRange(s, x) ==
  IF x.ok THEN RangeOf(replaceCaret(x)) ELSE ParseComparator(replaceStars(s))

\* a comparator text that starts with "~" or "~>"
TildeRange(s, x) ==
  IF x.ok THEN RangeOf(replaceTilde(x)) ELSE ParseComparator(replaceStars(s))

\* any other comparator text, x being the match of what follows its operator
XRange(s, gtlt, x) ==
  IF x.ok /\ (isX(x.M) \/ isX(x.m) \/ isX(x.p))
  THEN RangeOf(replaceXRange(gtlt, x))
  ELSE ParseComparator(replaceStars(s))

GtltRange(s, g) == XRange(s, g.op, XRangePlainMatch(SubSeq(s, g.len + 1, Len(s))))

\* new Range(s): replaceCarets, replaceTildes, replaceXRanges, replaceStars and
\* then the comparators
Range(s) ==
  IF s = Null \/ s = Undefined THEN InvalidRange
  ELSE IF s # <<>> /\ s[1] = "^" THEN CaretRange(s, XRangePlainMatch(Tail(s)))
  ELSE IF s # <<>> /\ s[1] = "~"
    THEN TildeRange(s, XRangePlainMatch(
           SubSeq(s, (IF Len(s) >= 2 /\ s[2] = ">" THEN 3 ELSE 2), Len(s))))
  ELSE GtltRange(s, GtltOf(s))

\* semver.validRange(s) is truthy
validRange(s) == Range(s).ok

\* testSet(set, version): every comparator accepts the version, and a
\* prerelease is accepted only when a comparator names a prerelease of the
\* same major.minor.patch
testSet(set, v) ==
  /\ \A i \in 1..Len(set) : set[i].any \/ cmp(v, set[i].operator, set[i].semver)
  /\ (v.prerelease # <<>> =>
        \E i \in 1..Len(set) :
          /\ ~set[i].any
          /\ set[i].semver.prerelease # <<>>
          /\ set[i].semver.major = v.major
          /\ set[i].semver.minor = v.minor
          /\ set[i].semver.patch = v.patch)

\* Range.prototype.test(version) for a version string and its SemVer: a falsy
\* version is refused, an invalid one makes new SemVer throw
rangeTest(r, version, v) ==
  IF Falsy(version) THEN Returned(FALSE)
  ELSE IF ~v.ok THEN Thrown(FALSE)
  ELSE Returned(testSet(r.set, v))

\* semver.satisfies(version, range): an invalid range gives false
satisfiesRange(version, r) ==
  IF ~r.ok THEN Returned(FALSE) ELSE rangeTest(r, version, SemVer(version))

satisfies(version, range) == satisfiesRange(version, Range(range))

\* outside(version, range, '<'): the comparators with the lowest version
\* ("high" in the source) and with the highest ("low"), ANY counting as >=0.0.0
NotAny(c) == IF c.any THEN Comparator(">=", MkSemVer(0, 0, 0)) ELSE c

HighLowStep(c, high, low) ==
  IF compare(c.semver, high.semver) < 0 THEN [high |-> c, low |-> low]
  ELSE IF compare(c.semver, low.semver) > 0 THEN [high |-> high, low |-> c]
  ELSE [high |-> high, low |-> low]

RECURSIVE HighLowFrom(_, _, _)
HighLowFrom(set, i, hl) ==
  IF i > Len(set) THEN hl
  ELSE HighLowFrom(set, i + 1, HighLowStep(NotAny(set[i]), hl.high, hl.low))

HighLow(set) == HighLowFrom(set, 1, [high |-> NotAny(set[1]), low |-> NotAny(set[1])])

OutsideBelow(v, set, hl) ==
  IF testSet(set, v) THEN FALSE
  ELSE IF hl.high.operator \in {"<", "<="} THEN FALSE
  ELSE IF hl.low.operator \in {"", "<"} /\ compare(v, hl.low.semver) >= 0 THEN FALSE
  ELSE IF hl.low.operator = "<=" /\ compare(v, hl.low.semver) > 0 THEN FALSE
  ELSE TRUE

outside(v, r) ==
  IF ~v.ok \/ ~r.ok THEN Thrown(FALSE) ELSE Returned(OutsideBelow(v, r.set, HighLow(r.set)))

\* semver.ltr(version, range): version is below everything the range accepts;
\* throws when version is no version or range is no range
ltr(version, range) == outside(SemVer(version), Range(range))

\* semver.maxSatisfying(versions, range) of semver 5.x: null for an invalid
\* range; otherwise every entry is tested, which throws on an entry that is
\* not a version, and the first of the highest accepted entries is kept
MaxStep(max, version, test, c) ==
  IF test.value /\ (Falsy(max) \/ c = -1) THEN version ELSE max

RECURSIVE maxSatisfyingFrom(_, _, _, _)
maxSatisfyingFrom(versions, r, i, max) ==
  IF i > Len(versions) THEN max
  ELSE maxSatisfyingFrom(versions, r, i + 1,
         MaxStep(max, versions[i], rangeTest(r, versions[i], SemVer(versions[i])),
                 compare(SemVer(max), SemVer(versions[i]))))

maxSatisfyingIn(versions, r) ==
  IF ~r.ok THEN Returned(Null)
  ELSE IF \E i \in 1..Len(versions) : ~Falsy(versions[i]) /\ ~IsValidVersion(versions[i])
    THEN Thrown(Null)
  ELSE Returned(maxSatisfyingFrom(versions, r, 1, Null))

maxSatisfying(versions, range) == maxSatisfyingIn(versions, Range(range))

(***************************************************************************)
(* utils.js (not among the sources): formatTagNameRegex captures the       *)
(* leading run of alphabetic characters, and does not match when there is  *)
(* none; sortDescending is the descending lexical comparison.              *)
(***************************************************************************)
\* formatTagNameRegex.exec(s): the text of the match (regexResult[0]) or Null
TagNameMatch(s, n) == IF n = 0 THEN Null ELSE SubSeq(s, 1, n)

formatTagNameRegexExec(s) == TagNameMatch(s, PrefixLen(s, AlphaSet))

sortDescending(a, b) == IF StrLess(b, a) THEN -1 ELSE IF StrLess(a, b) THEN 1 ELSE 0

(***************************************************************************)
(* Arrays.  An array is [ref, elems]: ref tells the caller's arrays        *)
(* ("versions", "releases", "taggedVersions") from an array a function     *)
(* allocates ("new").  filter, slice and reduce-into-[] allocate; sort     *)
(* works in place and returns the array it was given.                      *)
(***************************************************************************)
Array(ref, elems) == [ref |-> ref, elems |-> elems]
NewArray(elems) == Array("new", elems)

\* Array.prototype.slice()
slice(array) == NewArray(array.elems)

\* what the caller's array holds after a call that sorted the array sorted
\* in place, unless it threw before
ElementsAfter(array, threw, sorted) ==
  IF ~threw /\ sorted.ref = array.ref THEN sorted.elems ELSE array.elems

(***************************************************************************)
(* The functions of src/unnamed/part_000.                                  *)
(***************************************************************************)
SATISFIES == <<"s", "a", "t", "i", "s", "f", "i", "e", "s">>
LATEST == <<"l", "a", "t", "e", "s", "t">>

TaggedVersion(name, version) == [name |-> name, version |-> version]

\* this.filter(tag => tag.version !== version)
removeExactVersions(this, version) ==
  NewArray(SelectSeq(this.elems, LAMBDA tag : tag.version # version))

\* this.filter(tag => tag.name !== name)
removeTagsWithName(this, name) ==
  NewArray(SelectSeq(this.elems, LAMBDA tag : tag.name # name))

pluckSemverVersions(versions) == SelectSeq(versions, validRange)

\* prereleaseGroup, from the match of the first prerelease component
PrereleaseGroup(regexResult) == IF regexResult # Null THEN toLowerCase(regexResult) ELSE <<>>

VersionInfo(version, prereleaseComponents) ==
  [version |-> version,
   isPrerelease |-> prereleaseComponents # <<>>,
   prereleaseGroup |->
     IF prereleaseComponents # <<>>
     THEN PrereleaseGroup(formatTagNameRegexExec(prereleaseComponents[1].text))
     ELSE <<>>]

parseVersion(version) == VersionInfo(version, prerelease(version))

\* testVersion of isOlderVersion (lines 130-140): the prerelease suffix of the
\* version is removed when the request is no prerelease and the version is one
StripIf(stripped, version, testVersionComponents) ==
  [stripped |-> stripped,
   text |-> IF stripped
            THEN RemoveFirst(version, <<"-">> \o JoinPrerelease(testVersionComponents))
            ELSE version]

TestVersion(version, requestedVersionComponents, testVersionComponents) ==
  StripIf(requestedVersionComponents = <<>> /\ testVersionComponents # <<>>,
          version, testVersionComponents)

\* lines 143 and 147, lessThanRange being the outcome of semver.ltr
OlderOutcome(lessThanRange, testVersion, requestedVersion) ==
  IF lessThanRange.threw THEN Thrown(FALSE)
  ELSE Returned(\/ lessThanRange.value
                \/ (testVersion.stripped /\ Includes(requestedVersion, testVersion.text)))

OlderThan(testVersion, requestedVersion) ==
  OlderOutcome(ltr(testVersion.text, requestedVersion), testVersion, requestedVersion)

isOlderVersion(version, requestedVersion) ==
  OlderThan(TestVersion(version, prerelease(requestedVersion), prerelease(version)),
            requestedVersion)

\* this.filter(tag => !isOlderVersion(tag.version, versionRange)), older being
\* the outcomes of isOlderVersion on the tags
FilterOlder(this, older) ==
  IF \E i \in 1..Len(older) : older[i].threw
  THEN Thrown(NewArray(<<>>))
  ELSE Returned(NewArray(SelectFrom(this.elems, [i \in 1..Len(older) |-> ~older[i].value], 1)))

\* a filter that keeps the older tags
removeOlderVersionsInverted(this, versionRange) ==
  FilterOlder(this,
    [i \in 1..Len(this.elems) |->
       Returned(~isOlderVersion(this.elems[i].version, versionRange).value)])

removeOlderVersions(this, versionRange) ==
  FilterOlder(this,
    [i \in 1..Len(this.elems) |-> isOlderVersion(this.elems[i].version, versionRange)])

\* new Range(versionToCheck).set[0][0].operator === ""
isFixedVersion(versionToCheck) == Range(versionToCheck).set[1].operator = ""

\* sortTagsByRecentVersion, c being the outcome of semver.compare on the
\* versions: lt gives 1, gt gives -1
SortOrder(c, nameA, nameB) ==
  IF c.value < 0 THEN 1
  ELSE IF c.value > 0 THEN -1
  ELSE sortDescending(nameA, nameB)

\* a comparator that sorts ascending
sortTagsByOldestVersion(tagA, tagB) ==
  SortOrder(semverCompare(tagB.version, tagA.version), tagB.name, tagA.name)

sortTagsByRecentVersion(tagA, tagB) ==
  SortOrder(semverCompare(tagA.version, tagB.version), tagA.name, tagB.name)

\* Array.prototype.sort(sortTagsByRecentVersion): stable, in place.  With two
\* elements or more every element is compared at least once, so the sort
\* throws when the comparator throws on any of them.
RECURSIVE InsertSorted(_, _, _)
InsertSorted(sorted, x, i) ==
  IF i = 0 \/ sortTagsByRecentVersion(sorted[i], x) <= 0
  THEN SubSeq(sorted, 1, i) \o <<x>> \o SubSeq(sorted, i + 1, Len(sorted))
  ELSE InsertSorted(sorted, x, i - 1)

RECURSIVE SortFrom(_, _, _)
SortFrom(elems, i, sorted) ==
  IF i > Len(elems) THEN sorted
  ELSE SortFrom(elems, i + 1, InsertSorted(sorted, elems[i], Len(sorted)))

sort(array) ==
  IF Len(array.elems) >= 2 /\ \E i \in 1..Len(array.elems) : ~IsValidVersion(array.elems[i].version)
  THEN Thrown(array)
  ELSE Returned(Array(array.ref, SortFrom(array.elems, 1, <<>>)))

MapFrom(parsedVersions) ==
  [releases |->
     SelectFrom([i \in 1..Len(parsedVersions) |-> parsedVersions[i].version],
                [i \in 1..Len(parsedVersions) |-> ~parsedVersions[i].isPrerelease], 1),
   taggedVersions |->
     SelectFrom([i \in 1..Len(parsedVersions) |->
                   TaggedVersion(parsedVersions[i].prereleaseGroup, parsedVersions[i].version)],
                [i \in 1..Len(parsedVersions) |-> parsedVersions[i].isPrerelease], 1)]

pluckTagsAndReleases(versions) ==
  MapFrom([i \in 1..Len(versions) |-> parseVersion(versions[i])])

\* a reduce that keeps the last tag of every name instead of the first
reduceTagsByUniqueNamesLast(this) ==
  NewArray(SelectFrom(this.elems,
    [i \in 1..Len(this.elems) |->
       \A j \in (i + 1)..Len(this.elems) : this.elems[j].name # this.elems[i].name], 1))

\* this.reduce(...): a tag is pushed unless unique holds one of its name
RECURSIVE UniqueNamesFrom(_, _, _)
UniqueNamesFrom(elems, i, unique) ==
  IF i > Len(elems) THEN unique
  ELSE UniqueNamesFrom(elems, i + 1,
         IF \E k \in 1..Len(unique) : unique[k].name = elems[i].name
         THEN unique ELSE unique \o <<elems[i]>>)

reduceTagsByUniqueNames(this) == NewArray(UniqueNamesFrom(this.elems, 1, <<>>))

\* the tags removeAmbiguousTagNames pushes for a tag whose name matches as
\* regexResult
Disambiguated(tag, regexResult) ==
  IF regexResult = Null THEN <<TaggedVersion(tag.name, tag.version)>>
  ELSE IF Len(regexResult) > 1 THEN <<TaggedVersion(toLowerCase(regexResult), tag.version)>>
  ELSE <<>>

RECURSIVE AmbiguousFrom(_, _, _)
AmbiguousFrom(elems, i, results) ==
  IF i > Len(elems) THEN results
  ELSE AmbiguousFrom(elems, i + 1,
         results \o Disambiguated(elems[i], formatTagNameRegexExec(elems[i].name)))

removeAmbiguousTagNames(this) == NewArray(AmbiguousFrom(this.elems, 1, <<>>))

\* a deduce whose catch gives null
deduceMaxSatisfyingOrNull(semverList, requestedVersion) ==
  maxSatisfying(semverList, requestedVersion).value

\* try { semver.maxSatisfying(...) } catch (err) { }
MaxSatisfyingOr(outcome, requestedVersion) ==
  IF outcome.threw THEN requestedVersion ELSE outcome.value

deduceMaxSatisfyingFromSemverList(semverList, requestedVersion) ==
  MaxSatisfyingOr(maxSatisfying(semverList, requestedVersion), requestedVersion)

VersionMap(versionMap, maxSatisfyingVersion) ==
  [releases |-> versionMap.releases,
   taggedVersions |-> versionMap.taggedVersions,
   maxSatisfyingVersion |-> maxSatisfyingVersion]

MapOf(semverList, requestedVersion) ==
  VersionMap(pluckTagsAndReleases(semverList),
             deduceMaxSatisfyingFromSemverList(semverList, requestedVersion))

buildMapFromVersionList(versions, requestedVersion) ==
  MapOf(pluckSemverVersions(versions), requestedVersion)

\* lines 361-364 and 372-375: filterVersions without the tags older than
\* versionRange, when the condition of the if holds
OlderRemoved(filterVersions, condition, versionRange) ==
  IF filterVersions.threw \/ ~condition THEN filterVersions
  ELSE removeOlderVersions(filterVersions.value, versionRange)

\* lines 367 and 370
ExactRemoved(filterVersions, version) ==
  IF filterVersions.threw THEN filterVersions
  ELSE Returned(removeExactVersions(filterVersions.value, version))

\* line 378
Unambiguous(filterVersions) ==
  IF filterVersions.threw THEN filterVersions
  ELSE Returned(removeAmbiguousTagNames(filterVersions.value))

\* lines 381-386; the array returned is the one sorted
Sorted(filterVersions) ==
  IF filterVersions.threw THEN filterVersions
  ELSE sort(removeTagsWithName(reduceTagsByUniqueNames(filterVersions.value), LATEST))

\* lines 359-375 of applyTagFilterRules: the copy, without the tags older than
\* the request, those of the satisfying and of the latest version and, when
\* no version matched, those older than the latest
FilterByVersion(taggedVersions, requestedVersion, satisifiesVersion, latestVersion, versionMatchNotFound) ==
  OlderRemoved(
    ExactRemoved(
      ExactRemoved(
        OlderRemoved(Returned(slice(taggedVersions)), validRange(requestedVersion),
                     requestedVersion),
        satisifiesVersion),
      latestVersion),
    versionMatchNotFound, latestVersion)

\* lines 359-378
FilterByName(taggedVersions, requestedVersion, satisifiesVersion, latestVersion, versionMatchNotFound) ==
  Unambiguous(FilterByVersion(taggedVersions, requestedVersion, satisifiesVersion,
                              latestVersion, versionMatchNotFound))

\* an applyTagFilterRules that filters and sorts the caller's array itself
applyTagFilterRulesInPlace(taggedVersions, requestedVersion, satisifiesVersion, latestVersion, versionMatchNotFound) ==
  [threw |-> Sorted(FilterByName(taggedVersions, requestedVersion, satisifiesVersion,
                                 latestVersion, versionMatchNotFound)).threw,
   value |-> Array(taggedVersions.ref,
                   Sorted(FilterByName(taggedVersions, requestedVersion, satisifiesVersion,
                                       latestVersion, versionMatchNotFound)).value.elems)]

applyTagFilterRules(taggedVersions, requestedVersion, satisifiesVersion, latestVersion, versionMatchNotFound) ==
  Sorted(FilterByName(taggedVersions, requestedVersion, satisifiesVersion,
                      latestVersion, versionMatchNotFound))

\* versionMap.releases[0] || versionMap.taggedVersions[0].version raises a
\* TypeError when releases[0] is undefined or "" and there is no tagged version
LatestVersionThrows(versionMap) ==
  /\ (versionMap.releases.elems = <<>> \/ Falsy(versionMap.releases.elems[1]))
  /\ versionMap.taggedVersions.elems = <<>>

LatestVersion(versionMap) ==
  IF versionMap.releases.elems # <<>> /\ ~Falsy(versionMap.releases.elems[1])
  THEN versionMap.releases.elems[1]
  ELSE versionMap.taggedVersions.elems[1].version

\* an isLatestVersion that compares the request as it is written
isLatestVersionExact(satisfiesLatest, requestedVersion, latestVersion) ==
  satisfiesLatest /\ requestedVersion = latestVersion

\* an isLatestVersion that only compares the text of the request
isLatestVersionTextual(satisfiesLatest, requestedVersion, latestVersion) ==
  RemoveFirstCaretOrTilde(requestedVersion) = latestVersion

\* line 319
isLatestVersion(satisfiesLatest, requestedVersion, latestVersion) ==
  satisfiesLatest /\ RemoveFirstCaretOrTilde(requestedVersion) = latestVersion

\* what buildTagsFromVersionMap gives: whether it threw, the array returned
\* and the array applyTagFilterRules sorted
Built(threw, value, sorted) == [threw |-> threw, value |-> value, sorted |-> sorted]

NotBuilt == Built(TRUE, <<>>, NewArray(<<>>))

\* lines 335-349
TagsOf(satisfiesEntry, latestEntry, filterVersions) ==
  IF filterVersions.threw THEN NotBuilt
  ELSE Built(FALSE,
             <<satisfiesEntry>>
               \o (IF satisfiesEntry.isLatestVersion THEN <<>> ELSE <<latestEntry>>)
               \o filterVersions.value.elems,
             filterVersions.value)

\* lines 322-332, newer being the outcome of semver.gt when it is evaluated
SatisfiesEntry(maxSatisfyingVersion, requestedVersion, isRequestedVersionValid, latestVersion, satisfiesLatest, newer) ==
  [name |-> SATISFIES,
   version |-> maxSatisfyingVersion,
   isNewerThanLatest |-> ~satisfiesLatest /\ ~Falsy(maxSatisfyingVersion) /\ newer.value > 0,
   isLatestVersion |-> isLatestVersion(satisfiesLatest, requestedVersion, latestVersion),
   satisfiesLatest |-> satisfiesLatest,
   isInvalid |-> ~isRequestedVersionValid,
   versionMatchNotFound |-> Falsy(maxSatisfyingVersion),
   isFixedVersion |-> isRequestedVersionValid /\ isFixedVersion(requestedVersion),
   isPrimaryTag |-> TRUE]

\* lines 311-316
LatestEntry(latestVersion, isOlderThanRequested) ==
  [name |-> LATEST, version |-> latestVersion, isOlderThanRequested |-> isOlderThanRequested]

TagsWith(versionMap, requestedVersion, isRequestedVersionValid, latestVersion, isOlderThanRequested, satisfiesLatest, newer) ==
  IF newer.threw THEN NotBuilt
  ELSE TagsOf(SatisfiesEntry(versionMap.maxSatisfyingVersion, requestedVersion,
                             isRequestedVersionValid, latestVersion, satisfiesLatest, newer),
              LatestEntry(latestVersion, isOlderThanRequested),
              applyTagFilterRules(versionMap.taggedVersions, requestedVersion,
                                  versionMap.maxSatisfyingVersion, latestVersion,
                                  Falsy(versionMap.maxSatisfyingVersion)))

\* older is the outcome of isOlderVersion of line 315 and satisfiesLatest that
\* of semver.satisfies of line 317; semver.gt of line 325 is evaluated when
\* the maximum does not satisfy the latest and is not null
TagsFrom(versionMap, requestedVersion, isRequestedVersionValid, latestVersion, older, satisfiesLatest) ==
  IF older.threw \/ satisfiesLatest.threw THEN NotBuilt
  ELSE TagsWith(versionMap, requestedVersion, isRequestedVersionValid, latestVersion,
                older.value, satisfiesLatest.value,
                IF ~satisfiesLatest.value /\ ~Falsy(versionMap.maxSatisfyingVersion)
                THEN semverCompare(versionMap.maxSatisfyingVersion, latestVersion)
                ELSE Returned(0))

TagsFor(versionMap, requestedVersion, isRequestedVersionValid, latestVersion) ==
  TagsFrom(versionMap, requestedVersion, isRequestedVersionValid, latestVersion,
           IF ~Falsy(versionMap.maxSatisfyingVersion) /\ isRequestedVersionValid
           THEN isOlderVersion(latestVersion, requestedVersion)
           ELSE Returned(FALSE),
           satisfies(versionMap.maxSatisfyingVersion, latestVersion))

buildTagsFromVersionMap(versionMap, requestedVersion) ==
  IF LatestVersionThrows(versionMap) THEN NotBuilt
  ELSE TagsFor(versionMap, requestedVersion, validRange(requestedVersion),
               LatestVersion(versionMap))

(***************************************************************************)
(* The inputs.                                                             *)
(***************************************************************************)
Str100 == <<"1", ".", "0", ".", "0">>
Str110 == <<"1", ".", "1", ".", "0">>
Str200 == <<"2", ".", "0", ".", "0">>
Str300 == <<"3", ".", "0", ".", "0">>
StrBeta1 == Str200 \o <<"-", "b", "e", "t", "a", ".", "1">>
StrBeta2 == Str200 \o <<"-", "b", "e", "t", "a", ".", "2">>
StrRC1 == Str300 \o <<"-", "R", "C", ".", "1">>

VersionPool ==
  {Str100, Str110, Str200, <<"v">> \o Str200, StrBeta1, StrBeta2, StrRC1,
   Str300 \o <<"-">> \o SATISFIES \o <<".", "1">>,
   Str300 \o <<"-">> \o LATEST \o <<".", "1">>,
   Str300 \o <<"-", "1">>,
   <<"1", ".", "x">>, <<>>, <<"a", "b", "c">>}

RequestPool ==
  {Str100, <<"^">> \o Str100, <<"~">> \o Str200, <<">", "=">> \o Str100,
   <<"^", "4", ".", "0", ".", "0">>, <<>>, <<"^", "^", "1">>, StrBeta1, <<"*">>,
   <<"1", ".", "x">>}

MaxVersions == 2
MaxTags == 2

SeqsUpTo(set, n) == UNION {[1..k -> set] : k \in 0..n}

\* the arguments of a direct call of applyTagFilterRules
TagPool ==
  {TaggedVersion(<<"b", "e", "t", "a">>, StrBeta1),
   TaggedVersion(<<"b", "e", "t", "a">>, StrBeta2),
   TaggedVersion(<<"R", "C">>, StrRC1),
   TaggedVersion(<<"r", "c">>, <<"v">> \o StrRC1),
   TaggedVersion(<<"n", "e", "x", "t">>, StrRC1),
   TaggedVersion(LATEST, Str300 \o <<"-">> \o LATEST \o <<".", "1">>),
   TaggedVersion(<<"b">>, Str300 \o <<"-", "b", ".", "1">>),
   TaggedVersion(<<>>, Str300 \o <<"-", "1">>),
   TaggedVersion(<<"x">>, <<"a", "b", "c">>)}

DirectRequestPool == {Str100, <<"^">> \o Str200, <<"^", "^", "1">>, StrBeta1}
DirectSatisfiesPool == {Null, StrBeta1}
DirectLatestPool == {Str200, StrRC1, <<"a", "b", "c">>}

(***************************************************************************)
(* The state: the caller's raw list and request, the version map it gets   *)
(* from buildMapFromVersionList (whose arrays it then owns), the outcome   *)
(* of buildTagsFromVersionMap; and, for a caller of applyTagFilterRules,   *)
(* the arguments of the call and its outcome.                              *)
(***************************************************************************)
VARIABLES pc, versions, requestedVersion, versionMap, tags, call, filtered

vars == <<pc, versions, requestedVersion, versionMap, tags, call, filtered>>

NoMap ==
  [releases |-> Array("releases", <<>>),
   taggedVersions |-> Array("taggedVersions", <<>>),
   maxSatisfyingVersion |-> Null]
NoOutcome == [threw |-> FALSE, value |-> <<>>]
NoCall ==
  [taggedVersions |-> Array("taggedVersions", <<>>), requestedVersion |-> <<>>,
   satisifiesVersion |-> Null, latestVersion |-> <<>>, versionMatchNotFound |-> FALSE]

InitVersions ==
  /\ pc = "versions"
  /\ \E list \in SeqsUpTo(VersionPool, MaxVersions) : versions = Array("versions", list)
  /\ requestedVersion \in RequestPool
  /\ versionMap = NoMap
  /\ tags = NoOutcome
  /\ call = NoCall
  /\ filtered = NoOutcome

InitArguments ==
  /\ pc = "arguments"
  /\ versions = Array("versions", <<>>)
  /\ requestedVersion = <<>>
  /\ versionMap = NoMap
  /\ tags = NoOutcome
  /\ \E list \in SeqsUpTo(TagPool, MaxTags), request \in DirectRequestPool,
        satisifies \in DirectSatisfiesPool, latest \in DirectLatestPool, notFound \in BOOLEAN :
       call = [taggedVersions |-> Array("taggedVersions", list), requestedVersion |-> request,
               satisifiesVersion |-> satisifies, latestVersion |-> latest,
               versionMatchNotFound |-> notFound]
  /\ filtered = NoOutcome

Init == InitVersions \/ InitArguments

\* the caller keeps the arrays of the map it is given
MapReturned(map) ==
  versionMap' = [releases |-> Array("releases", map.releases),
                 taggedVersions |-> Array("taggedVersions", map.taggedVersions),
                 maxSatisfyingVersion |-> map.maxSatisfyingVersion]

BuildMapFromVersionList ==
  /\ pc = "versions"
  /\ MapReturned(buildMapFromVersionList(versions.elems, requestedVersion))
  /\ pc' = "versionMap"
  /\ UNCHANGED <<versions, requestedVersion, tags, call, filtered>>

\* the outcome, and what the caller's arrays hold after the call
TagsReturned(result) ==
  /\ tags' = [threw |-> result.threw, value |-> result.value]
  /\ versions' = Array("versions", ElementsAfter(versions, result.threw, result.sorted))
  /\ versionMap' =
       [releases |->
          Array("releases", ElementsAfter(versionMap.releases, result.threw, result.sorted)),
        taggedVersions |->
          Array("taggedVersions",
                ElementsAfter(versionMap.taggedVersions, result.threw, result.sorted)),
        maxSatisfyingVersion |-> versionMap.maxSatisfyingVersion]

BuildTagsFromVersionMap ==
  /\ pc = "versionMap"
  /\ TagsReturned(buildTagsFromVersionMap(versionMap, requestedVersion))
  /\ pc' = "tags"
  /\ UNCHANGED <<requestedVersion, call, filtered>>

FilterReturned(result) ==
  /\ filtered' = [threw |-> result.threw,
                  value |-> IF result.threw THEN <<>> ELSE result.value.elems]
  /\ call' = [call EXCEPT !.taggedVersions =
                Array("taggedVersions", ElementsAfter(call.taggedVersions, result.threw, result.value))]

ApplyTagFilterRules ==
  /\ pc = "arguments"
  /\ FilterReturned(applyTagFilterRules(call.taggedVersions, call.requestedVersion,
                      call.satisifiesVersion, call.latestVersion, call.versionMatchNotFound))
  /\ pc' = "filtered"
  /\ UNCHANGED <<versions, requestedVersion, versionMap, tags>>

Next == BuildMapFromVersionList \/ BuildTagsFromVersionMap \/ ApplyTagFilterRules

Spec == Init /\ [][Next]_vars

(***************************************************************************)
(* The properties.                                                         *)
(***************************************************************************)

\* C1: buildTagsFromVersionMap returns, for every version map and request,
\* a sequence of length >= 1 whose first element is named "satisfies".
C1_SatisfiesFirst ==
  pc = "tags" =>
    /\ ~tags.threw
    /\ Len(tags.value) >= 1
    /\ tags.value[1].name = SATISFIES

\* C2 as stated: whenever the output holds the dedicated "latest" entry, its
\* version is not the version of the "satisfies" entry.
C2_LatestNeverSatisfies ==
  (pc = "tags" /\ ~tags.threw /\ Len(tags.value) >= 2 /\ tags.value[2].name = LATEST)
    => tags.value[2].version # tags.value[1].version

\* C2, amended: whenever the output holds the dedicated "latest" entry and
\* the request, with its first ^ or ~ removed, is textually the latest
\* version, the version of the "latest" entry is not that of the
\* "satisfies" entry.
C2_LatestOfRequestNeverSatisfies ==
  (/\ pc = "tags" /\ ~tags.threw /\ Len(tags.value) >= 2 /\ tags.value[2].name = LATEST
   /\ RemoveFirstCaretOrTilde(requestedVersion) = tags.value[2].version)
    => tags.value[2].version # tags.value[1].version

\* the request ^1.0.0 on the list 1.0.0, 1.1.0: the latest entry 1.0.0 is
\* listed beside the satisfying 1.1.0
C2_Witness ==
  /\ pc = "tags" /\ ~tags.threw
  /\ versions.elems = <<Str100, Str110>>
  /\ requestedVersion = <<"^">> \o Str100
  /\ Len(tags.value) = 2
  /\ tags.value[2].name = LATEST /\ tags.value[2].version = Str100
  /\ tags.value[1].version = Str110

\* C3: the list buildTagsFromVersionMap returns holds no two entries whose
\* names are equal when compared case-insensitively.
C3_UniqueNames ==
  (pc = "tags" /\ ~tags.threw) =>
    \A i, j \in 1..Len(tags.value) :
      i < j => toLowerCase(tags.value[i].name) # toLowerCase(tags.value[j].name)

\* C4: buildMapFromVersionList followed by buildTagsFromVersionMap raises
\* no exception, for any raw version list and any request.
C4_NeverRaises == pc = "tags" => ~tags.threw

\* C5: the list applyTagFilterRules returns is ordered descending: of two
\* adjacent entries the first is not semantically less than the second, and
\* when their versions are semantically equal its name is not lexically less.
C5_SortedDescending ==
  (pc = "filtered" /\ ~filtered.threw) =>
    \A i \in 1..(Len(filtered.value) - 1) :
      \A c \in {semverCompare(filtered.value[i].version, filtered.value[i + 1].version)} :
        /\ ~c.threw
        /\ c.value >= 0
        /\ c.value = 0 => ~StrLess(filtered.value[i].name, filtered.value[i + 1].name)

\* two tags given oldest first are returned newest first
C5_Witness ==
  /\ pc = "filtered" /\ ~filtered.threw
  /\ Len(call.taggedVersions.elems) = 2
  /\ call.taggedVersions.elems[1].version = StrBeta1
  /\ call.taggedVersions.elems[2].version = StrRC1
  /\ Len(filtered.value) = 2
  /\ filtered.value[1].version = StrRC1
  /\ filtered.value[2].version = StrBeta1

\* C6: of the tags that survive stages 1-5 of applyTagFilterRules and share
\* a name other than "latest", exactly one is returned, and it is the one
\* that comes first in the order of taggedVersions, whatever the versions
\* of the later ones.
C6_FirstOccurrenceKept ==
  (pc = "filtered" /\ ~filtered.threw) =>
    \A stage5 \in {FilterByName(call.taggedVersions, call.requestedVersion,
                                call.satisifiesVersion, call.latestVersion,
                                call.versionMatchNotFound).value.elems} :
      \A i \in 1..Len(stage5) :
        (stage5[i].name # LATEST /\ \A j \in 1..(i - 1) : stage5[j].name # stage5[i].name)
          => /\ Cardinality({k \in 1..Len(filtered.value) :
                               filtered.value[k].name = stage5[i].name}) = 1
             /\ \A k \in 1..Len(filtered.value) :
                  filtered.value[k].name = stage5[i].name
                    => filtered.value[k].version = stage5[i].version

\* beta 2.0.0-beta.1 then beta 2.0.0-beta.2, neither filtered by stages 1-4,
\* gives beta 2.0.0-beta.1 alone
C6_Witness ==
  /\ pc = "filtered" /\ ~filtered.threw
  /\ call.taggedVersions.elems =
       <<TaggedVersion(<<"b", "e", "t", "a">>, StrBeta1),
         TaggedVersion(<<"b", "e", "t", "a">>, StrBeta2)>>
  /\ call.satisifiesVersion = Null
  /\ filtered.value = <<TaggedVersion(<<"b", "e", "t", "a">>, StrBeta1)>>

\* C7: applyTagFilterRules and buildTagsFromVersionMap leave the caller's
\* collections as they were: the raw version list, versionMap.releases and
\* versionMap.taggedVersions hold the same elements in the same order after
\* the call as before it.
C7_NoMutation ==
  [][/\ versions' = versions
     /\ pc = "versionMap" => /\ versionMap'.releases = versionMap.releases
                             /\ versionMap'.taggedVersions = versionMap.taggedVersions
     /\ pc = "arguments" => call'.taggedVersions = call.taggedVersions]_vars

\* the tags returned are renamed and in another order than the caller's,
\* which are as they were
C7_Witness ==
  /\ pc = "filtered" /\ ~filtered.threw
  /\ call.taggedVersions.elems =
       <<TaggedVersion(<<"b", "e", "t", "a">>, StrBeta1), TaggedVersion(<<"R", "C">>, StrRC1)>>
  /\ filtered.value =
       <<TaggedVersion(<<"r", "c">>, StrRC1), TaggedVersion(<<"b", "e", "t", "a">>, StrBeta1)>>

\* C8 as stated: deduceMaxSatisfyingFromSemverList returns the request
\* unchanged when the request is a malformed range.
C8_MalformedGivesRequest ==
  (pc = "versionMap" /\ ~validRange(requestedVersion))
    => versionMap.maxSatisfyingVersion = requestedVersion

\* C8, amended: deduceMaxSatisfyingFromSemverList never raises; for a
\* malformed range it returns null; for a well-formed range and a list with
\* an entry that is not empty and not a version, the failure of the
\* computation is caught and it returns the request unchanged; for a
\* well-formed range and a list of versions it returns the highest version
\* of the list that satisfies the range, or null when none does.
C8_MaxSatisfyingOrFallback ==
  pc = "versionMap" =>
    \A semverList \in {pluckSemverVersions(versions.elems)} :
      \A max \in {versionMap.maxSatisfyingVersion} :
        IF ~validRange(requestedVersion) THEN max = Null
        ELSE IF \E i \in 1..Len(semverList) :
                  ~Falsy(semverList[i]) /\ ~IsValidVersion(semverList[i])
        THEN max = requestedVersion
        ELSE IF \A i \in 1..Len(semverList) : ~satisfies(semverList[i], requestedVersion).value
        THEN max = Null
        ELSE /\ \E i \in 1..Len(semverList) : semverList[i] = max
             /\ satisfies(max, requestedVersion).value
             /\ \A i \in 1..Len(semverList) :
                  satisfies(semverList[i], requestedVersion).value
                    => semverCompare(semverList[i], max).value <= 0

\* the malformed request ^^1 gives null, the list holding a version
C8_Witness ==
  /\ pc = "versionMap"
  /\ versions.elems = <<Str100>>
  /\ requestedVersion = <<"^", "^", "1">>
  /\ ~validRange(requestedVersion)
  /\ versionMap.maxSatisfyingVersion = Null

\* C9: when the list holds a release, no release of the filtered list is
\* semantically greater than the version of the latest entry; when it holds
\* none, the latest entry is a prerelease of the list.
C9_LatestIsMostRecent ==
  (pc = "tags" /\ ~tags.threw) =>
    \A latestVersion \in {LatestVersion(versionMap)} :
      IF versionMap.releases.elems # <<>>
      THEN \A i \in 1..Len(versionMap.releases.elems) :
             (IsValidVersion(versionMap.releases.elems[i]) /\ IsValidVersion(latestVersion))
               => semverCompare(versionMap.releases.elems[i], latestVersion).value <= 0
      ELSE \E i \in 1..Len(versionMap.taggedVersions.elems) :
             versionMap.taggedVersions.elems[i].version = latestVersion

C11_LatestOmittedOnlyWhenShown ==
  (/\ pc = "tags" /\ ~tags.threw
   /\ (Len(tags.value) < 2 \/ tags.value[2].name # LATEST))
    => /\ tags.value[1].isLatestVersion
       /\ tags.value[1].satisfiesLatest
       /\ ~tags.value[1].versionMatchNotFound
       /\ ~tags.value[1].isNewerThanLatest
       /\ ~Falsy(tags.value[1].version)
       /\ \A c \in {semverCompare(tags.value[1].version, LatestVersion(versionMap))} :
            ~c.threw /\ c.value = 0

\* the request ^1.0.0 on the list 1.0.0, 2.0.0-beta.1: the satisfying 1.0.0
\* is the latest release and the second element is the tag beta
C11_Witness ==
  /\ pc = "tags" /\ ~tags.threw
  /\ versions.elems = <<Str100, StrBeta1>>
  /\ requestedVersion = <<"^">> \o Str100
  /\ Len(tags.value) = 2
  /\ tags.value[1].version = Str100
  /\ tags.value[2] = TaggedVersion(<<"b", "e", "t", "a">>, StrBeta1)

====
